---- MODULE Spec2Model ----
(***************************************************************************)
(* Conway's Game of Life screen saver (src/main.cpp): the grid functions   *)
(* (mod, idx, countNeighbors, stepLife, setCell, resizeGridToWindow) as    *)
(* operators, and the frame loop of main() as a state machine.             *)
(*                                                                         *)
(* A std::vector<uint8_t> is a sequence; the C++ index i is the sequence   *)
(* position i + 1.  Integer division and remainder are C++'s (truncation   *)
(* toward zero), not TLA+'s.                                               *)
(***************************************************************************)
EXTENDS Integers, Sequences, FiniteSets, TLC

VARIABLES
    cfg,                \* Config: cell_px, ms_per_step, wrap, max_age
    isEmbeddedPreview,  \* main: sargs.mode == SaverMode::Preview (Windows build)
    win_w_px, win_h_px, \* what SDL_GetWindowSize reported at its last call
    grid_w, grid_h,     \* main: grid dimensions
    cur, nxt,           \* main: the two cell-age buffers
    running,            \* main: loop flag
    mouse_left, mouse_right,
    last_step, now,     \* steady_clock readings, in clock ticks
    pc,                 \* position of main in its frame loop
    exit_code,          \* main's return value, -1 while it has not returned
    released,           \* renderer, window and SDL released
    frame,              \* the commands of the last frame sent to the renderer
    last_op,            \* history: the operation performed last and its inputs;
                        \* in the frame loop, what the current tick has done
    gen                 \* history: number of operations applied (bounded runs)

vars == <<cfg, isEmbeddedPreview, win_w_px, win_h_px, grid_w, grid_h, cur, nxt,
          running, mouse_left, mouse_right, last_step, now, pc, exit_code,
          released, frame, last_op, gen>>

----------------------------------------------------------------------------
(* Bounds of the model *)

\* largest surface extent, in pixels, the frame loop's window takes
MaxSurfacePx == 4
\* largest number of cells of a grid in the frame loop
MaxSurfaceCells == 2
\* last clock reading (in ticks) in a run of the frame loop
MaxTime == 4
\* clock ticks per millisecond (std::chrono::steady_clock is finer than 1 ms)
TicksPerMs == 2
\* largest width and height of a grid a grid function is applied to
MaxDim == 3
\* largest number of cells of such a grid
MaxCells == 9
\* number of consecutive generations computed from one grid
MaxSteps == 4
\* largest width and height of a grid holding a lone blinker
MaxBlinkerDim == 6
\* largest number of cells of a grid that is resized
MaxResizeCells == 6
\* number of consecutive resizes of one grid
MaxResizes == 2
\* number of consecutive setCell calls on one grid
MaxSetCells == 2
\* largest number of cells of a grid that pointer events act on
MaxInputCells == 4
\* number of consecutive pointer events on one grid
MaxEvents == 2
\* the ages 0 .. MaxColorAge are given a colour (and three larger ones)
MaxColorAge == 6
\* number of consecutive colorForAge calls
MaxColors == 2

----------------------------------------------------------------------------
(* C++ arithmetic *)

Max(a, b) == IF a >= b THEN a ELSE b
Min(a, b) == IF a <= b THEN a ELSE b
Clamp(v, lo, hi) == IF v < lo THEN lo ELSE IF v > hi THEN hi ELSE v

\* a / b of C++ ints, b > 0: truncates toward zero
CDiv(a, b) == IF a >= 0 THEN a \div b ELSE -((-a) \div b)
\* a % m of C++ ints, m > 0: the sign of the result is the sign of a
CRem(a, m) == IF a >= 0 THEN a % m ELSE -((-a) % m)
\* (uint8_t) v
U8(v) == v % 256

mod(a, m) == LET r == CRem(a, m) IN IF r < 0 THEN r + m ELSE r
idx(x, y, w) == y * w + x

\* g[i] of a std::vector
At(g, i) == g[i + 1]
\* std::vector<uint8_t>(n, 0)
Zeros(n) == [i \in 1..n |-> 0]

----------------------------------------------------------------------------
(* Grid functions *)

\* NeighborTerm with the edges never wrapped around
NeighborTerm_NoWrap(g, x, y, w, h, wrap, dx, dy) ==
    LET nx == x + dx
        ny == y + dy
    IN  IF nx < 0 \/ nx >= w \/ ny < 0 \/ ny >= h
        THEN 0
        ELSE IF At(g, idx(nx, ny, w)) # 0 THEN 1 ELSE 0

\* NeighborTerm with the age of the neighbour added to the count
NeighborTerm_ByAge(g, x, y, w, h, wrap, dx, dy) ==
    LET nx == x + dx
        ny == y + dy
    IN  IF wrap
        THEN At(g, idx(mod(nx, w), mod(ny, h), w))
        ELSE IF nx < 0 \/ nx >= w \/ ny < 0 \/ ny >= h
             THEN 0
             ELSE At(g, idx(nx, ny, w))

\* the contribution of offset (dx, dy) to the count: the body of the two loops
NeighborTerm(g, x, y, w, h, wrap, dx, dy) ==
    LET nx == x + dx
        ny == y + dy
    IN  IF wrap
        THEN IF At(g, idx(mod(nx, w), mod(ny, h), w)) # 0 THEN 1 ELSE 0
        ELSE IF nx < 0 \/ nx >= w \/ ny < 0 \/ ny >= h
             THEN 0
             ELSE IF At(g, idx(nx, ny, w)) # 0 THEN 1 ELSE 0

\* the two loops over dy, dx in -1..1, (0, 0) skipped
countNeighbors(g, x, y, w, h, wrap) ==
      NeighborTerm(g, x, y, w, h, wrap, -1, -1)
    + NeighborTerm(g, x, y, w, h, wrap,  0, -1)
    + NeighborTerm(g, x, y, w, h, wrap,  1, -1)
    + NeighborTerm(g, x, y, w, h, wrap, -1,  0)
    + NeighborTerm(g, x, y, w, h, wrap,  1,  0)
    + NeighborTerm(g, x, y, w, h, wrap, -1,  1)
    + NeighborTerm(g, x, y, w, h, wrap,  0,  1)
    + NeighborTerm(g, x, y, w, h, wrap,  1,  1)

AgeCap(max_age) == U8(Clamp(max_age, 1, 255))

\* NextAge with a dead cell born on two neighbours as well
NextAge_BirthOnTwo(c, x, y, w, h, wrap, max_age) ==
    LET cap == AgeCap(max_age)
        n == countNeighbors(c, x, y, w, h, wrap)
        age == At(c, idx(x, y, w))
        alive == (age # 0)
        nextAlive == (n = 2 \/ n = 3)
    IN  IF ~nextAlive THEN 0
        ELSE IF ~alive THEN 1
        ELSE IF age < cap THEN U8(age + 1) ELSE cap

\* NextAge with the age of a survivor never saturating
NextAge_NoCap(c, x, y, w, h, wrap, max_age) ==
    LET n == countNeighbors(c, x, y, w, h, wrap)
        age == At(c, idx(x, y, w))
        alive == (age # 0)
        nextAlive == IF alive THEN (n = 2 \/ n = 3) ELSE (n = 3)
    IN  IF ~nextAlive THEN 0
        ELSE IF ~alive THEN 1
        ELSE U8(age + 1)

\* the value stepLife stores in nxt[idx(x, y, w)]
NextAge(c, x, y, w, h, wrap, max_age) ==
    LET cap == AgeCap(max_age)
        n == countNeighbors(c, x, y, w, h, wrap)
        age == At(c, idx(x, y, w))
        alive == (age # 0)
        nextAlive == IF alive THEN (n = 2 \/ n = 3) ELSE (n = 3)
    IN  IF ~nextAlive THEN 0
        ELSE IF ~alive THEN 1
        ELSE IF age < cap THEN U8(age + 1) ELSE cap

\* the grid g with the cells from index i - 1 on stepped one after the other,
\* each from the grid the cells before it have left
RECURSIVE SteppedInPlace(_, _, _, _, _, _)
SteppedInPlace(g, i, w, h, wrap, max_age) ==
    IF i > w * h THEN g
    ELSE SteppedInPlace(
             [g EXCEPT ![i] = NextAge(g, (i - 1) % w, (i - 1) \div w,
                                      w, h, wrap, max_age)],
             i + 1, w, h, wrap, max_age)

\* stepLife with the new ages written into the buffer that is read
stepLife_InPlace(c, nx, w, h, wrap, max_age) ==
    SteppedInPlace(c, 1, w, h, wrap, max_age)

\* nxt after stepLife(c, nx, w, h, wrap, max_age); the loops write the
\* indexes 0 .. w*h - 1 of nxt and leave any further element alone
stepLife(c, nx, w, h, wrap, max_age) ==
    [i \in 1..Len(nx) |->
        IF i <= w * h
        THEN NextAge(c, (i - 1) % w, (i - 1) \div w, w, h, wrap, max_age)
        ELSE nx[i]]

\* setCell without the tests of gx
setCell_NoXCheck(g, w, h, gx, gy, alive) ==
    IF gy < 0 \/ gy >= h THEN g
    ELSE [g EXCEPT ![idx(gx, gy, w) + 1] = IF alive THEN 1 ELSE 0]

\* g after setCell(g, w, h, gx, gy, alive)
setCell(g, w, h, gx, gy, alive) ==
    IF gx < 0 \/ gx >= w \/ gy < 0 \/ gy >= h THEN g
    ELSE [g EXCEPT ![idx(gx, gy, w) + 1] = IF alive THEN 1 ELSE 0]

\* NewDim without the minimum of one cell
NewDim_NoMin(px, cell_px) == CDiv(px, Max(1, cell_px))

\* the new dimensions resizeGridToWindow computes
NewDim(px, cell_px) == Max(1, CDiv(px, Max(1, cell_px)))

\* ResizedCur with old_ok testing the buffer against the new dimensions
ResizedCur_OldOkNewDims(c, gw, gh, new_w, new_h) ==
    LET old_ok == gw > 0 /\ gh > 0 /\ Len(c) = new_w * new_h
        copy_w == Min(gw, new_w)
        copy_h == Min(gh, new_h)
    IN  [i \in 1..(new_w * new_h) |->
            LET x == (i - 1) % new_w
                y == (i - 1) \div new_w
            IN  IF old_ok /\ x < copy_w /\ y < copy_h
                THEN At(c, idx(x, y, gw))
                ELSE 0]

\* ResizedCur with the copy stopping one row early
ResizedCur_ShortCopy(c, gw, gh, new_w, new_h) ==
    LET old_ok == gw > 0 /\ gh > 0 /\ Len(c) = gw * gh
        copy_w == Min(gw, new_w)
        copy_h == Min(gh, new_h) - 1
    IN  [i \in 1..(new_w * new_h) |->
            LET x == (i - 1) % new_w
                y == (i - 1) \div new_w
            IN  IF old_ok /\ x < copy_w /\ y < copy_h
                THEN At(c, idx(x, y, gw))
                ELSE 0]

\* new_cur as resizeGridToWindow fills it
ResizedCur(c, gw, gh, new_w, new_h) ==
    LET old_ok == gw > 0 /\ gh > 0 /\ Len(c) = gw * gh
        copy_w == Min(gw, new_w)
        copy_h == Min(gh, new_h)
    IN  [i \in 1..(new_w * new_h) |->
            LET x == (i - 1) % new_w
                y == (i - 1) \div new_w
            IN  IF old_ok /\ x < copy_w /\ y < copy_h
                THEN At(c, idx(x, y, gw))
                ELSE 0]

\* resizeGridToWindow without the early return of line 156
resizeGridToWindow_NoEarlyReturn(wpx, hpx, cell_px, gw, gh, c, nx) ==
    LET new_w == NewDim(wpx, cell_px)
        new_h == NewDim(hpx, cell_px)
    IN  [grid_w |-> new_w, grid_h |-> new_h,
         cur |-> ResizedCur(c, gw, gh, new_w, new_h),
         nxt |-> Zeros(new_w * new_h)]

\* grid_w, grid_h, cur, nxt after resizeGridToWindow with a window of
\* wpx x hpx pixels
resizeGridToWindow(wpx, hpx, cell_px, gw, gh, c, nx) ==
    LET new_w == NewDim(wpx, cell_px)
        new_h == NewDim(hpx, cell_px)
    IN  IF new_w = gw /\ new_h = gh /\ Len(c) = gw * gh
        THEN [grid_w |-> gw, grid_h |-> gh, cur |-> c, nxt |-> nx]
        ELSE [grid_w |-> new_w, grid_h |-> new_h,
              cur |-> ResizedCur(c, gw, gh, new_w, new_h),
              nxt |-> Zeros(new_w * new_h)]

----------------------------------------------------------------------------
(* Colour helpers.  A float is the rational <<numerator, denominator>> with  *)
(* a positive denominator: the arithmetic is exact where the code's is       *)
(* rounded to a float.                                                       *)

RECURSIVE Gcd(_, _)
Gcd(a, b) == IF b = 0 THEN a ELSE Gcd(b, a % b)
\* the same value in lowest terms (the set binds a, so that it is evaluated
\* only once)
RNorm(a) ==
    LET Lowest(v) ==
            LET g == Gcd(IF v[1] < 0 THEN -v[1] ELSE v[1], v[2])
            IN  <<v[1] \div g, v[2] \div g>>
    IN  CHOOSE r \in {Lowest(v) : v \in {a}} : TRUE
RSub(a, b) == RNorm(<<a[1] * b[2] - b[1] * a[2], a[2] * b[2]>>)
RMul(a, b) == RNorm(<<a[1] * b[1], a[2] * b[2]>>)
\* a / k for an integer k > 0
RDivInt(a, k) == <<a[1], a[2] * k>>
\* a < k for an integer k
RLess(a, k) == a[1] < k * a[2]
\* std::fabs
RAbs(a) == <<IF a[1] < 0 THEN -a[1] ELSE a[1], a[2]>>
\* std::fmod(a, k) for an integer k > 0: the result has the sign of a
RFmod(a, k) == <<CRem(a[1], k * a[2]), a[2]>>

\* lines 67-70: std::lround rounds halfway cases away from zero
to8(f) ==
    LET n == IF f[1] < 0 THEN 0 ELSE IF f[1] > f[2] THEN f[2] ELSE f[1]
    IN  U8((2 * 255 * n + f[2]) \div (2 * f[2]))

\* lines 51-78
hsvToRgb(h_deg, s, v) ==
    LET h1 == RFmod(h_deg, 360)
        h == IF h1[1] < 0 THEN <<h1[1] + 360 * h1[2], h1[2]>> ELSE h1
        c == RMul(v, s)
        x == RMul(c, RSub(<<1, 1>>,
                          RAbs(RSub(RFmod(RDivInt(h, 60), 2), <<1, 1>>))))
        m == RSub(v, c)
        z == <<0, 1>>
        rgb1 == IF RLess(h, 60) THEN <<c, x, z>>
                ELSE IF RLess(h, 120) THEN <<x, c, z>>
                ELSE IF RLess(h, 180) THEN <<z, c, x>>
                ELSE IF RLess(h, 240) THEN <<z, x, c>>
                ELSE IF RLess(h, 300) THEN <<x, z, c>>
                ELSE <<c, z, x>>
        plus(a) == RNorm(<<a[1] * m[2] + m[1] * a[2], a[2] * m[2]>>)
    IN  [r |-> to8(plus(rgb1[1])), g |-> to8(plus(rgb1[2])),
         b |-> to8(plus(rgb1[3])), a |-> 255]

\* colorForAge with the age not limited to max_age
colorForAge_NoMin(age, max_age) ==
    IF age = 0 THEN [r |-> 0, g |-> 0, b |-> 0, a |-> 255]
    ELSE LET ma == Max(1, max_age)
             t == IF ma = 1 THEN <<0, 1>> ELSE <<age - 1, ma - 1>>
             hue == RMul(<<200, 1>>, RSub(<<1, 1>>, t))
             val == RSub(<<1, 1>>, RMul(<<65, 100>>, t))
         IN  hsvToRgb(hue, <<1, 1>>, val)

\* lines 80-91
colorForAge(age, max_age) ==
    IF age = 0 THEN [r |-> 0, g |-> 0, b |-> 0, a |-> 255]
    ELSE LET ma == Max(1, max_age)
             t == IF ma = 1 THEN <<0, 1>> ELSE <<Min(age, ma) - 1, ma - 1>>
             hue == RMul(<<200, 1>>, RSub(<<1, 1>>, t))
             val == RSub(<<1, 1>>, RMul(<<65, 100>>, t))
         IN  hsvToRgb(hue, <<1, 1>>, val)

\* lines 524-537: the rectangles filled for the live cells from index i on,
\* in row order
RECURSIVE FillRectsFrom(_, _, _, _, _, _)
FillRectsFrom(c, i, gw, gh, cell_px, max_age) ==
    IF i >= gw * gh THEN <<>>
    ELSE LET rest == FillRectsFrom(c, i + 1, gw, gh, cell_px, max_age)
             age == At(c, idx(i % gw, i \div gw, gw))
         IN  IF age = 0 THEN rest
             ELSE <<[op |-> "fill",
                     x |-> (i % gw) * cell_px,
                     y |-> (i \div gw) * cell_px,
                     w |-> cell_px,
                     h |-> cell_px,
                     color |-> colorForAge(age, max_age)]>> \o rest

\* FillRects with a rectangle for every cell, the dead ones too
FillRects_AllCells(c, gw, gh, cell_px, max_age) ==
    [i \in 1..(gw * gh) |->
        [op |-> "fill",
         x |-> ((i - 1) % gw) * cell_px,
         y |-> ((i - 1) \div gw) * cell_px,
         w |-> cell_px,
         h |-> cell_px,
         color |-> colorForAge(c[i], max_age)]]

FillRects(c, gw, gh, cell_px, max_age) ==
    FillRectsFrom(c, 0, gw, gh, cell_px, max_age)

\* lines 521-539: the commands of one frame
RenderFrame(c, gw, gh, cell_px, max_age) ==
    <<[op |-> "clear", color |-> [r |-> 0, g |-> 0, b |-> 0, a |-> 255]]>>
        \o FillRects(c, gw, gh, cell_px, max_age)
        \o <<[op |-> "present"]>>

----------------------------------------------------------------------------
(* The event handlers of main's drain loop, as functions of what they read *)

\* lines 476-483: the held flags after a button event
HeldAfter(held, pressed, button, which) ==
    IF button = which THEN pressed ELSE held

\* Paint with the erase evaluated before the paint
Paint_EraseFirst(c, gw, gh, cell_px, mx, my, left, right) ==
    LET cell == Max(1, cell_px)
        gx == CDiv(mx, cell)
        gy == CDiv(my, cell)
        c1 == IF right THEN setCell(c, gw, gh, gx, gy, FALSE) ELSE c
    IN  IF left THEN setCell(c1, gw, gh, gx, gy, TRUE) ELSE c1

\* lines 485-493: cur after the paint/erase of a motion or button-down event
\* with SDL_GetMouseState reporting (mx, my)
Paint(c, gw, gh, cell_px, mx, my, left, right) ==
    LET cell == Max(1, cell_px)
        gx == CDiv(mx, cell)
        gy == CDiv(my, cell)
        c1 == IF left THEN setCell(c, gw, gh, gx, gy, TRUE) ELSE c
    IN  IF right THEN setCell(c1, gw, gh, gx, gy, FALSE) ELSE c1

\* time_to_step with the elapsed time having to exceed the interval
time_to_step_Strict(ms_per_step, t_now, t_last) ==
    IF ms_per_step = 0 THEN TRUE
    ELSE CDiv(t_now - t_last, TicksPerMs) > ms_per_step

\* lines 511-513
time_to_step(ms_per_step, t_now, t_last) ==
    IF ms_per_step = 0 THEN TRUE
    ELSE CDiv(t_now - t_last, TicksPerMs) >= ms_per_step

----------------------------------------------------------------------------
(* The frame loop of main *)

Buttons == {"left", "right", "middle"}
WindowEvents == {"size_changed", "resized", "exposed"}
Keys == {"escape", "space"}
\* the extents the window takes: empty, and the two largest
SurfacePx == {0, MaxSurfacePx - 1, MaxSurfacePx}
\* the pointer positions SDL_GetMouseState reports: while a button is held
\* they lie outside the window too
PointerPx == {-1, MaxSurfacePx - 1}
Surfaces(cell_px) ==
    {s \in SurfacePx \X SurfacePx :
        NewDim(s[1], cell_px) * NewDim(s[2], cell_px) <= MaxSurfaceCells}

\* the configurations the frame loop is run with
LoopConfigs ==
    [cell_px : {2}, ms_per_step : {0, 1}, wrap : {TRUE}, max_age : {2}]

\* lines 449-458: the grid sized to the window and randomized, the loop about
\* to start; the window main creates is at least one pixel wide and high
\* (lines 213-214, 249, 324-325)
Init ==
    /\ cfg \in LoopConfigs
    /\ isEmbeddedPreview \in BOOLEAN
    /\ \E s \in {t \in Surfaces(cfg.cell_px) : t[1] >= 1 /\ t[2] >= 1} :
          /\ win_w_px = s[1]
          /\ win_h_px = s[2]
          /\ LET r == resizeGridToWindow(s[1], s[2], cfg.cell_px, 0, 0, <<>>, <<>>)
             IN  /\ grid_w = r.grid_w
                 /\ grid_h = r.grid_h
                 /\ cur \in [1..Len(r.cur) -> {0, 1}]
                 /\ nxt = r.nxt
    /\ running = TRUE
    /\ mouse_left = FALSE
    /\ mouse_right = FALSE
    /\ now = 0
    /\ last_step = 0
    /\ pc = "poll"
    /\ exit_code = -1
    /\ released = FALSE
    /\ frame = <<>>
    /\ last_op = [name |-> "main", painted |-> FALSE]
    /\ gen = 0

\* what no step of the frame loop changes
Fixed == UNCHANGED <<cfg, isEmbeddedPreview, gen>>

\* what only painting and rendering change
Quiet == Fixed /\ UNCHANGED <<frame, last_op>>

\* history: whether a paint or erase has changed a cell in this tick
Painted(c_after) ==
    [last_op EXCEPT !.painted = @ \/ (c_after # cur)]

\* PollQuit with the loop left at once
PollQuit_BreakOut ==
    /\ pc = "poll"
    /\ running' = FALSE
    /\ pc' = "cleanup"
    /\ Quiet
    /\ UNCHANGED <<win_w_px, win_h_px, grid_w, grid_h, cur, nxt, mouse_left,
                   mouse_right, last_step, now, exit_code, released>>

\* line 463
PollQuit ==
    /\ pc = "poll"
    /\ running' = FALSE
    /\ Quiet
    /\ UNCHANGED <<win_w_px, win_h_px, grid_w, grid_h, cur, nxt, mouse_left,
                   mouse_right, last_step, now, pc, exit_code, released>>

\* lines 465-470: a window event; at a size event the window may have any
\* size, which resizeGridToWindow reads (lines 149-150)
PollWindowEvent ==
    /\ pc = "poll"
    /\ \E ev \in WindowEvents :
          IF ev \in {"size_changed", "resized"}
          THEN \E s \in Surfaces(cfg.cell_px) :
                  LET r == resizeGridToWindow(s[1], s[2], cfg.cell_px,
                                              grid_w, grid_h, cur, nxt)
                  IN  /\ win_w_px' = s[1]
                      /\ win_h_px' = s[2]
                      /\ grid_w' = r.grid_w
                      /\ grid_h' = r.grid_h
                      /\ cur' = r.cur
                      /\ nxt' = r.nxt
          ELSE UNCHANGED <<win_w_px, win_h_px, grid_w, grid_h, cur, nxt>>
    /\ Quiet
    /\ UNCHANGED <<running, mouse_left, mouse_right, last_step, now, pc,
                   exit_code, released>>

\* lines 472-474
PollKeyDown ==
    /\ pc = "poll"
    /\ \E sym \in Keys :
          /\ running' = IF sym = "escape" THEN FALSE ELSE running
    /\ Quiet
    /\ UNCHANGED <<win_w_px, win_h_px, grid_w, grid_h, cur, nxt, mouse_left,
                   mouse_right, last_step, now, pc, exit_code, released>>

\* lines 476-479 and 485-493
PollMouseButtonDown ==
    /\ pc = "poll"
    /\ \E button \in Buttons, mx \in PointerPx, my \in PointerPx :
          LET left == HeldAfter(mouse_left, TRUE, button, "left")
              right == HeldAfter(mouse_right, TRUE, button, "right")
          IN  /\ mouse_left' = left
              /\ mouse_right' = right
              /\ cur' = Paint(cur, grid_w, grid_h, cfg.cell_px, mx, my, left, right)
    /\ last_op' = Painted(cur')
    /\ Fixed
    /\ UNCHANGED frame
    /\ UNCHANGED <<win_w_px, win_h_px, grid_w, grid_h, nxt, running, last_step,
                   now, pc, exit_code, released>>

\* lines 480-483
PollMouseButtonUp ==
    /\ pc = "poll"
    /\ \E button \in Buttons :
          /\ mouse_left' = HeldAfter(mouse_left, FALSE, button, "left")
          /\ mouse_right' = HeldAfter(mouse_right, FALSE, button, "right")
    /\ Quiet
    /\ UNCHANGED <<win_w_px, win_h_px, grid_w, grid_h, cur, nxt, running,
                   last_step, now, pc, exit_code, released>>

\* lines 485-493
PollMouseMotion ==
    /\ pc = "poll"
    /\ \E mx \in PointerPx, my \in PointerPx :
          cur' = Paint(cur, grid_w, grid_h, cfg.cell_px, mx, my,
                       mouse_left, mouse_right)
    /\ last_op' = Painted(cur')
    /\ Fixed
    /\ UNCHANGED frame
    /\ UNCHANGED <<win_w_px, win_h_px, grid_w, grid_h, nxt, running, mouse_left,
                   mouse_right, last_step, now, pc, exit_code, released>>

\* an event of a type no branch of the drain loop handles (key up, ...)
PollOtherEvent ==
    /\ pc = "poll"
    /\ Quiet
    /\ UNCHANGED <<win_w_px, win_h_px, grid_w, grid_h, cur, nxt, running,
                   mouse_left, mouse_right, last_step, now, pc, exit_code,
                   released>>

\* DrainEnd with the tick going on to the render, past the clock
DrainEnd_SkipClock ==
    /\ pc = "poll"
    /\ pc' = "render"
    /\ Quiet
    /\ UNCHANGED <<win_w_px, win_h_px, grid_w, grid_h, cur, nxt, running,
                   mouse_left, mouse_right, last_step, now, exit_code, released>>

\* line 462: SDL_PollEvent returns 0; lines 496-508: in the embedded preview
\* the parent window is still there
DrainEnd ==
    /\ pc = "poll"
    /\ pc' = "clock"
    /\ Quiet
    /\ UNCHANGED <<win_w_px, win_h_px, grid_w, grid_h, cur, nxt, running,
                   mouse_left, mouse_right, last_step, now, exit_code, released>>

\* lines 496-499: the drain is over and the preview's parent window is gone
DrainEndParentGone ==
    /\ pc = "poll"
    /\ isEmbeddedPreview
    /\ running' = FALSE
    /\ pc' = "clock"
    /\ Quiet
    /\ UNCHANGED <<win_w_px, win_h_px, grid_w, grid_h, cur, nxt, mouse_left,
                   mouse_right, last_step, now, exit_code, released>>

\* lines 510-519: the clock is read and the step runs if it is due
StepIfDue ==
    /\ pc = "clock"
    /\ \E t \in now..MaxTime :
          /\ now' = t
          /\ IF time_to_step(cfg.ms_per_step, t, last_step)
             THEN /\ cur' = stepLife(cur, nxt, grid_w, grid_h, cfg.wrap, cfg.max_age)
                  /\ nxt' = cur
                  /\ last_step' = t
             ELSE /\ UNCHANGED <<cur, nxt, last_step>>
    /\ pc' = "render"
    /\ Quiet
    /\ UNCHANGED <<win_w_px, win_h_px, grid_w, grid_h, running, mouse_left,
                   mouse_right, exit_code, released>>

\* Render with a loop that does not test running
Render_LoopForever ==
    /\ pc = "render"
    /\ frame' = RenderFrame(cur, grid_w, grid_h, cfg.cell_px, cfg.max_age)
    /\ last_op' = [name |-> "main", painted |-> FALSE]
    /\ pc' = "poll"
    /\ Fixed
    /\ UNCHANGED <<win_w_px, win_h_px, grid_w, grid_h, cur, nxt, running,
                   mouse_left, mouse_right, last_step, now, exit_code, released>>

\* lines 521-540 and the loop test of line 460
Render ==
    /\ pc = "render"
    /\ frame' = RenderFrame(cur, grid_w, grid_h, cfg.cell_px, cfg.max_age)
    /\ last_op' = [name |-> "main", painted |-> FALSE]
    /\ pc' = IF running THEN "poll" ELSE "cleanup"
    /\ Fixed
    /\ UNCHANGED <<win_w_px, win_h_px, grid_w, grid_h, cur, nxt, running,
                   mouse_left, mouse_right, last_step, now, exit_code, released>>

\* lines 543-546
Cleanup ==
    /\ pc = "cleanup"
    /\ released' = TRUE
    /\ exit_code' = 0
    /\ pc' = "done"
    /\ Quiet
    /\ UNCHANGED <<win_w_px, win_h_px, grid_w, grid_h, cur, nxt, running,
                   mouse_left, mouse_right, last_step, now>>

Next ==
    \/ PollQuit
    \/ PollWindowEvent
    \/ PollKeyDown
    \/ PollMouseButtonDown
    \/ PollMouseButtonUp
    \/ PollMouseMotion
    \/ PollOtherEvent
    \/ DrainEnd
    \/ DrainEndParentGone
    \/ StepIfDue
    \/ Render
    \/ Cleanup

Spec == Init /\ [][Next]_vars

----------------------------------------------------------------------------
(* The grid functions applied to bounded inputs.  The variables of the     *)
(* frame loop that a function does not read keep the values of Idle.       *)

Idle ==
    /\ isEmbeddedPreview = FALSE
    /\ running = TRUE
    /\ mouse_left = FALSE
    /\ mouse_right = FALSE
    /\ now = 0
    /\ last_step = 0
    /\ pc = "call"
    /\ exit_code = -1
    /\ released = FALSE
    /\ frame = <<>>

Dims == {d \in (1..MaxDim) \X (1..MaxDim) : d[1] * d[2] <= MaxCells}

\* the cell (x, y) of a w-wide grid g
Cell(g, x, y, w) == At(g, idx(x, y, w))

\* the coordinates of the live cells of g
Live(g, w, h) == {c \in (0..(w - 1)) \X (0..(h - 1)) : Cell(g, c[1], c[2], w) # 0}

\* max_age as configured, the out-of-range values included
StepConfigs ==
    [cell_px : {1}, ms_per_step : {0}, wrap : BOOLEAN, max_age : {0, 1, 2, 3, 300}]

\* a grid as randomize (line 138) leaves it
InitStep ==
    /\ cfg \in StepConfigs
    /\ \E d \in Dims :
          /\ grid_w = d[1]
          /\ grid_h = d[2]
          /\ win_w_px = d[1]
          /\ win_h_px = d[2]
          /\ cur \in [1..(d[1] * d[2]) -> {0, 1}]
          /\ nxt = Zeros(d[1] * d[2])
    /\ Idle
    /\ last_op = [name |-> "init"]
    /\ gen = 0

\* lines 516-517: stepLife and the swap of the buffers
StepOnce ==
    /\ gen < MaxSteps
    /\ cur' = stepLife(cur, nxt, grid_w, grid_h, cfg.wrap, cfg.max_age)
    /\ nxt' = cur
    /\ last_op' = [name |-> "step", pre |-> cur,
                   pre2 |-> IF last_op.name = "step" THEN last_op.pre ELSE <<>>]
    /\ gen' = gen + 1
    /\ UNCHANGED <<cfg, frame, isEmbeddedPreview, win_w_px, win_h_px, grid_w, grid_h,
                   running, mouse_left, mouse_right, last_step, now, pc,
                   exit_code, released>>

SpecStep == InitStep /\ [][StepOnce]_vars

----------------------------------------------------------------------------
(* stepLife applied to a lone blinker *)

\* the three cells of the blinker centred at c, horizontal or vertical, on a
\* w x h grid (on a torus the row or column runs across the edge)
BlinkerCells(c, horizontal, w, h) ==
    IF horizontal
    THEN {<<(c[1] + k) % w, c[2]>> : k \in -1..1}
    ELSE {<<c[1], (c[2] + k) % h>> : k \in -1..1}

\* the centres that leave room for both phases
BlinkerCentres(w, h, wrap) ==
    IF wrap
    THEN IF w >= 5 /\ h >= 5 THEN (0..(w - 1)) \X (0..(h - 1)) ELSE {}
    ELSE (1..(w - 2)) \X (1..(h - 2))

InitBlinker ==
    /\ cfg \in [cell_px : {1}, ms_per_step : {0}, wrap : BOOLEAN, max_age : {30}]
    /\ \E w \in 3..MaxBlinkerDim, h \in 3..MaxBlinkerDim :
          /\ grid_w = w
          /\ grid_h = h
          /\ win_w_px = w
          /\ win_h_px = h
          /\ \E c \in BlinkerCentres(w, h, cfg.wrap), horizontal \in BOOLEAN :
                cur = [i \in 1..(w * h) |->
                         IF <<(i - 1) % w, (i - 1) \div w>>
                                \in BlinkerCells(c, horizontal, w, h)
                         THEN 1 ELSE 0]
          /\ nxt = Zeros(w * h)
    /\ Idle
    /\ last_op = [name |-> "init"]
    /\ gen = 0

SpecBlinker == InitBlinker /\ [][StepOnce]_vars

----------------------------------------------------------------------------
(* resizeGridToWindow applied to bounded grids *)

ResizeDims == {d \in Dims : d[1] * d[2] <= MaxResizeCells}
InputDims == {d \in Dims : d[1] * d[2] <= MaxInputCells}

\* the window sizes whose grid is within the bounds: the empty extent, and
\* for each dimension the largest extent that gives it
ResizeSurfaces(cell_px) ==
    LET cell == Max(1, cell_px)
        px == {0} \cup {d * cell + (cell - 1) : d \in 1..MaxDim}
    IN  {s \in px \X px : <<NewDim(s[1], cell_px), NewDim(s[2], cell_px)>> \in ResizeDims}

\* a grid some generations old: ages 0, 1 and 2
InitGrid ==
    /\ cfg \in [cell_px : {2}, ms_per_step : {0}, wrap : {TRUE}, max_age : {30}]
    /\ \E d \in ResizeDims :
          /\ grid_w = d[1]
          /\ grid_h = d[2]
          /\ win_w_px = d[1] * cfg.cell_px
          /\ win_h_px = d[2] * cfg.cell_px
          /\ cur \in [1..(d[1] * d[2]) -> 0..2]
          /\ nxt = Zeros(d[1] * d[2])
    /\ Idle
    /\ last_op = [name |-> "init"]
    /\ gen = 0

\* a grid some generations old, the scratch buffer as the first resize left
\* it or as a step has left it
InitResize ==
    /\ cfg \in [cell_px : {2}, ms_per_step : {0}, wrap : {TRUE}, max_age : {30}]
    /\ \E d \in ResizeDims :
          /\ grid_w = d[1]
          /\ grid_h = d[2]
          /\ win_w_px = d[1] * cfg.cell_px
          /\ win_h_px = d[2] * cfg.cell_px
          /\ cur \in [1..(d[1] * d[2]) -> 0..2]
          /\ nxt \in {Zeros(d[1] * d[2]), [i \in 1..(d[1] * d[2]) |-> 1]}
    /\ Idle
    /\ last_op = [name |-> "init"]
    /\ gen = 0

\* lines 146-176, the window being s[1] x s[2] pixels
ResizeOnce ==
    /\ gen < MaxResizes
    /\ \E s \in ResizeSurfaces(cfg.cell_px) :
          LET r == resizeGridToWindow(s[1], s[2], cfg.cell_px,
                                      grid_w, grid_h, cur, nxt)
          IN  /\ win_w_px' = s[1]
              /\ win_h_px' = s[2]
              /\ grid_w' = r.grid_w
              /\ grid_h' = r.grid_h
              /\ cur' = r.cur
              /\ nxt' = r.nxt
    /\ last_op' = [name |-> "resize", grid_w |-> grid_w, grid_h |-> grid_h,
                   cur |-> cur, nxt |-> nxt,
                   before |-> IF last_op.name = "resize"
                              THEN <<[grid_w |-> last_op.grid_w,
                                      grid_h |-> last_op.grid_h,
                                      cur |-> last_op.cur]>>
                              ELSE <<>>]
    /\ gen' = gen + 1
    /\ UNCHANGED <<cfg, frame, isEmbeddedPreview, running, mouse_left, mouse_right,
                   last_step, now, pc, exit_code, released>>

SpecResize == InitResize /\ [][ResizeOnce]_vars

----------------------------------------------------------------------------
(* setCell applied to bounded grids *)

\* line 141-144, any coordinate from one left of (above) the grid to one
\* right of (below) it
SetCellOnce ==
    /\ gen < MaxSetCells
    /\ \E gx \in -1..grid_w, gy \in -1..grid_h, alive \in BOOLEAN :
          /\ cur' = setCell(cur, grid_w, grid_h, gx, gy, alive)
          /\ last_op' = [name |-> "setCell", gx |-> gx, gy |-> gy,
                         alive |-> alive, cur |-> cur]
    /\ gen' = gen + 1
    /\ UNCHANGED <<cfg, frame, isEmbeddedPreview, win_w_px, win_h_px, grid_w, grid_h,
                   nxt, running, mouse_left, mouse_right, last_step, now, pc,
                   exit_code, released>>

SpecSetCell == InitGrid /\ [][SetCellOnce]_vars

----------------------------------------------------------------------------
(* The pointer events of the drain loop applied to bounded grids *)

\* the pointer positions: a cell left of (above) the window, the pixel next
\* to its edge, the last pixel of the second cell, and the pixel past the
\* widest grid
InputPx(cell_px) ==
    LET cell == Max(1, cell_px)
    IN  {-cell, -1, 2 * cell - 1, MaxDim * cell}

\* a grid whose cells are dead or two generations old, any buttons held
InitInput ==
    /\ cfg \in [cell_px : {2, 3}, ms_per_step : {0}, wrap : {TRUE}, max_age : {30}]
    /\ \E d \in InputDims :
          /\ grid_w = d[1]
          /\ grid_h = d[2]
          /\ win_w_px = d[1] * cfg.cell_px
          /\ win_h_px = d[2] * cfg.cell_px
          /\ cur \in [1..(d[1] * d[2]) -> {0, 2}]
          /\ nxt = Zeros(d[1] * d[2])
    /\ isEmbeddedPreview = FALSE
    /\ running = TRUE
    /\ mouse_left \in BOOLEAN
    /\ mouse_right \in BOOLEAN
    /\ now = 0
    /\ last_step = 0
    /\ pc = "call"
    /\ exit_code = -1
    /\ released = FALSE
    /\ frame = <<>>
    /\ last_op = [name |-> "init"]
    /\ gen = 0

InputFixed ==
    UNCHANGED <<cfg, frame, isEmbeddedPreview, win_w_px, win_h_px, grid_w, grid_h, nxt,
                running, last_step, now, pc, exit_code, released>>

\* lines 476-479 and 485-493
ButtonDownOnce ==
    /\ gen < MaxEvents
    /\ \E button \in Buttons, mx \in InputPx(cfg.cell_px), my \in InputPx(cfg.cell_px) :
          LET left == HeldAfter(mouse_left, TRUE, button, "left")
              right == HeldAfter(mouse_right, TRUE, button, "right")
          IN  /\ mouse_left' = left
              /\ mouse_right' = right
              /\ cur' = Paint(cur, grid_w, grid_h, cfg.cell_px, mx, my, left, right)
              /\ last_op' = [name |-> "button_down", button |-> button,
                             mx |-> mx, my |-> my, cur |-> cur,
                             left |-> mouse_left, right |-> mouse_right]
    /\ gen' = gen + 1
    /\ InputFixed

\* lines 480-483
ButtonUpOnce ==
    /\ gen < MaxEvents
    /\ \E button \in Buttons :
          /\ mouse_left' = HeldAfter(mouse_left, FALSE, button, "left")
          /\ mouse_right' = HeldAfter(mouse_right, FALSE, button, "right")
          /\ last_op' = [name |-> "button_up", button |-> button,
                         mx |-> 0, my |-> 0, cur |-> cur,
                         left |-> mouse_left, right |-> mouse_right]
    /\ gen' = gen + 1
    /\ UNCHANGED cur
    /\ InputFixed

\* lines 485-493
MotionOnce ==
    /\ gen < MaxEvents
    /\ \E mx \in InputPx(cfg.cell_px), my \in InputPx(cfg.cell_px) :
          /\ cur' = Paint(cur, grid_w, grid_h, cfg.cell_px, mx, my,
                          mouse_left, mouse_right)
          /\ last_op' = [name |-> "motion", button |-> "none",
                         mx |-> mx, my |-> my, cur |-> cur,
                         left |-> mouse_left, right |-> mouse_right]
    /\ gen' = gen + 1
    /\ UNCHANGED <<mouse_left, mouse_right>>
    /\ InputFixed

NextInput == ButtonDownOnce \/ ButtonUpOnce \/ MotionOnce

SpecInput == InitInput /\ [][NextInput]_vars

----------------------------------------------------------------------------
(* countNeighbors applied to bounded grids *)

\* a grid whose cells are dead or two generations old
InitNeighbors ==
    /\ cfg \in [cell_px : {1}, ms_per_step : {0}, wrap : BOOLEAN, max_age : {30}]
    /\ \E d \in Dims :
          /\ grid_w = d[1]
          /\ grid_h = d[2]
          /\ win_w_px = d[1]
          /\ win_h_px = d[2]
          /\ cur \in [1..(d[1] * d[2]) -> {0, 2}]
          /\ nxt = Zeros(d[1] * d[2])
    /\ Idle
    /\ last_op = [name |-> "init"]
    /\ gen = 0

\* line 119: countNeighbors for a cell of the grid
CountOnce ==
    /\ \E x \in 0..(grid_w - 1), y \in 0..(grid_h - 1) :
          last_op' = [name |-> "count", x |-> x, y |-> y,
                      n |-> countNeighbors(cur, x, y, grid_w, grid_h, cfg.wrap)]
    /\ UNCHANGED <<cfg, frame, isEmbeddedPreview, win_w_px, win_h_px, grid_w, grid_h,
                   cur, nxt, running, mouse_left, mouse_right, last_step, now,
                   pc, exit_code, released, gen>>

SpecNeighbors == InitNeighbors /\ [][CountOnce]_vars

----------------------------------------------------------------------------
(* colorForAge applied to bounded inputs *)

\* the ages a colour is asked for: the smallest, the default max_age, the
\* age past it and the largest uint8_t
ColorAges == (0..MaxColorAge) \cup {30, 31, 255}

\* max_age as configured, the out-of-range values included
ColorConfigs ==
    [cell_px : {1}, ms_per_step : {0}, wrap : {TRUE},
     max_age : {-1, 0, 1, 2, 3, 5, 30, 300}]

InitColor ==
    /\ cfg \in ColorConfigs
    /\ grid_w = 1
    /\ grid_h = 1
    /\ win_w_px = 1
    /\ win_h_px = 1
    /\ cur = <<0>>
    /\ nxt = <<0>>
    /\ Idle
    /\ last_op = [name |-> "init"]
    /\ gen = 0

\* line 530: colorForAge for an age, after the call before it
ColorOnce ==
    /\ gen < MaxColors
    /\ \E age \in ColorAges :
          last_op' = [name |-> "color", age |-> age,
                      color |-> colorForAge(age, cfg.max_age),
                      before |-> IF last_op.name = "color"
                                 THEN <<[age |-> last_op.age,
                                         color |-> last_op.color]>>
                                 ELSE <<>>]
    /\ gen' = gen + 1
    /\ UNCHANGED <<cfg, frame, isEmbeddedPreview, win_w_px, win_h_px, grid_w, grid_h,
                   cur, nxt, running, mouse_left, mouse_right, last_step, now,
                   pc, exit_code, released>>

SpecColor == InitColor /\ [][ColorOnce]_vars

----------------------------------------------------------------------------
(* Reference definitions the claims are stated with *)

MooreOffsets == {d \in (-1..1) \X (-1..1) : d # <<0, 0>>}

\* the number of Moore offsets around (x, y) that land on a live cell of g:
\* positions wrapped around the edges when wrap, left out when they fall
\* outside the grid otherwise
LiveNeighbours(g, x, y, w, h, wrap) ==
    Cardinality({d \in MooreOffsets :
        LET nx == x + d[1]
            ny == y + d[2]
        IN  IF wrap
            THEN g[(ny % h) * w + (nx % w) + 1] # 0
            ELSE /\ nx \in 0..(w - 1)
                 /\ ny \in 0..(h - 1)
                 /\ g[ny * w + nx + 1] # 0})

\* clamp(maxAge, 1, 255)
Cap == IF cfg.max_age < 1 THEN 1 ELSE IF cfg.max_age > 255 THEN 255 ELSE cfg.max_age

Stepped == last_op.name = "step"
Resized == last_op.name = "resize"

\* (x, y) is a cell of the grid
InGrid(x, y) == x \in 0..(grid_w - 1) /\ y \in 0..(grid_h - 1)

\* the buffer c with cell (x, y) of the grid set to age a
WithCell(c, x, y, a) ==
    [i \in 1..Len(c) |-> IF i = y * grid_w + x + 1 THEN a ELSE c[i]]

\* integer division as C++ divides ints: the quotient truncated toward zero
TruncDiv(a, b) == IF a >= 0 THEN a \div b ELSE -((-a) \div b)

----------------------------------------------------------------------------
(* Claims *)

\* C1: after one step (stepLife and the swap) a cell is alive iff, in the
\* buffer that was current before the step, it was alive with 2 or 3 live
\* neighbours or dead with exactly 3; a dead cell with exactly 3 live
\* neighbours has age 1 afterwards.
C1_StepRule ==
    Stepped =>
        \A x \in 0..(grid_w - 1), y \in 0..(grid_h - 1) :
            LET was == last_op.pre[y * grid_w + x + 1]
                n == LiveNeighbours(last_op.pre, x, y, grid_w, grid_h, cfg.wrap)
                is == cur[y * grid_w + x + 1]
            IN  /\ (is # 0) <=> \/ (was # 0 /\ n \in {2, 3})
                                \/ (was = 0 /\ n = 3)
                /\ (was = 0 /\ n = 3) => is = 1

\* C1 witness: 3x3, wraparound off, only (0,0), (0,1), (0,2) alive before the
\* step, and (1,1) has age 1 after it
C1_Witness ==
    /\ Stepped
    /\ grid_w = 3 /\ grid_h = 3 /\ ~cfg.wrap
    /\ Live(last_op.pre, 3, 3) = {<<0, 0>>, <<0, 1>>, <<0, 2>>}
    /\ Cell(cur, 1, 1, 3) = 1

\* C2: a cell alive both before and after a step has age min(age + 1, cap)
\* after it, cap = clamp(maxAge, 1, 255): the age rises by one per
\* generation up to the cap, stays there, and no age exceeds the cap.
C2_AgeSaturates ==
    Stepped =>
        \A i \in 1..(grid_w * grid_h) :
            /\ cur[i] <= Cap
            /\ (last_op.pre[i] # 0 /\ cur[i] # 0) =>
                  cur[i] = Min(last_op.pre[i] + 1, Cap)

\* C2 witness: the 2x2 block, wraparound off, cap 3, stays at age 3
C2_Witness ==
    /\ Stepped
    /\ grid_w = 2 /\ grid_h = 2 /\ ~cfg.wrap /\ cfg.max_age = 3
    /\ last_op.pre = <<3, 3, 3, 3>>
    /\ cur = <<3, 3, 3, 3>>

\* C3: a lone blinker with room for its perpendicular phase (wraparound off
\* on grids from 3x3, wraparound on from 5x5) is, after one step, the
\* perpendicular three in a row about the same centre, and after every two
\* consecutive steps the live cells are those before the two steps.
C3_BlinkerPeriod2 ==
    Stepped =>
        /\ \E c \in BlinkerCentres(grid_w, grid_h, cfg.wrap), hz \in BOOLEAN :
              /\ Live(last_op.pre, grid_w, grid_h)
                    = BlinkerCells(c, hz, grid_w, grid_h)
              /\ Live(cur, grid_w, grid_h)
                    = BlinkerCells(c, ~hz, grid_w, grid_h)
        /\ last_op.pre2 # <<>> =>
              Live(cur, grid_w, grid_h) = Live(last_op.pre2, grid_w, grid_h)

\* C3 witness: on the 5x5 torus the blinker running across the left edge is
\* back after two steps
C3_Witness ==
    /\ Stepped
    /\ gen = 2
    /\ grid_w = 5 /\ grid_h = 5 /\ cfg.wrap
    /\ Live(cur, 5, 5) = {<<4, 0>>, <<0, 0>>, <<1, 0>>}
    /\ Live(last_op.pre, 5, 5) = {<<0, 4>>, <<0, 0>>, <<0, 1>>}
    /\ Live(last_op.pre2, 5, 5) = Live(cur, 5, 5)

\* C4: a resize from oldW x oldH to different dimensions newW x newH keeps
\* the age of every cell (x, y) with x < min(oldW, newW) and
\* y < min(oldH, newH) at the same coordinates of the new current buffer, and
\* every other cell of the new current buffer is dead.
C4_ResizeKeepsOverlap ==
    (Resized /\ <<grid_w, grid_h>> # <<last_op.grid_w, last_op.grid_h>>) =>
        /\ Len(cur) = grid_w * grid_h
        /\ \A x \in 0..(grid_w - 1), y \in 0..(grid_h - 1) :
              cur[y * grid_w + x + 1] =
                  IF x < last_op.grid_w /\ y < last_op.grid_h
                  THEN last_op.cur[y * last_op.grid_w + x + 1]
                  ELSE 0

\* C4 witness: a 2x2 grid grown to 3x2 keeps its four ages and gains two
\* dead cells, and is then cut to its top row of two cells
C4_Witness ==
    /\ Resized
    /\ gen = 2
    /\ last_op.grid_w = 3 /\ last_op.grid_h = 2
    /\ last_op.cur = <<1, 2, 0, 0, 1, 0>>
    /\ grid_w = 2 /\ grid_h = 1
    /\ cur = <<1, 2>>

\* C5: setCell with a coordinate outside the grid leaves every cell
\* unchanged; with a coordinate inside it sets that cell to 1 (alive) or 0
\* (dead) and leaves every other cell unchanged.
C5_SetCell ==
    last_op.name = "setCell" =>
        IF InGrid(last_op.gx, last_op.gy)
        THEN cur = WithCell(last_op.cur, last_op.gx, last_op.gy,
                            IF last_op.alive THEN 1 ELSE 0)
        ELSE cur = last_op.cur

\* C5 witness: after a setCell inside a 3x2 grid, setCell(width, height,
\* true) leaves the grid as it was
C5_Witness ==
    /\ last_op.name = "setCell"
    /\ gen = 2
    /\ grid_w = 3 /\ grid_h = 2
    /\ last_op.gx = grid_w /\ last_op.gy = grid_h /\ last_op.alive
    /\ cur = last_op.cur
    /\ cur = <<2, 0, 1, 0, 2, 0>>

\* the grid cell under the pointer of the last pointer event
PointerCell ==
    <<TruncDiv(last_op.mx, cfg.cell_px), TruncDiv(last_op.my, cfg.cell_px)>>

\* C10: on a pointer-motion or button-press event the cell under the pointer
\* (pointer position integer-divided by the cell size) gets age 1 if only
\* left is held, age 0 if right is held (also when left is held too), and
\* the grid is unchanged with neither held and on a button release; no other
\* cell changes; the held flags are the last press or release of each button.
C10_PaintErase ==
    /\ last_op.name \in {"motion", "button_down"} =>
          LET gx == PointerCell[1]
              gy == PointerCell[2]
          IN  cur = IF ~InGrid(gx, gy) THEN last_op.cur
                    ELSE IF mouse_right THEN WithCell(last_op.cur, gx, gy, 0)
                    ELSE IF mouse_left THEN WithCell(last_op.cur, gx, gy, 1)
                    ELSE last_op.cur
    /\ last_op.name = "button_up" => cur = last_op.cur
    /\ last_op.name \in {"motion", "button_down", "button_up"} =>
          /\ mouse_left = IF last_op.button = "left"
                          THEN last_op.name = "button_down"
                          ELSE last_op.left
          /\ mouse_right = IF last_op.button = "right"
                           THEN last_op.name = "button_down"
                           ELSE last_op.right

\* C10 witness: with left held, pressing right over a cell of age 2 that a
\* motion event before had painted over leaves that cell dead
C10_Witness ==
    /\ last_op.name = "button_down"
    /\ last_op.button = "right"
    /\ last_op.left /\ ~last_op.right
    /\ mouse_left /\ mouse_right
    /\ gen = 2
    /\ grid_w = 2 /\ grid_h = 2
    /\ PointerCell = <<1, 1>>
    /\ last_op.cur = <<2, 2, 2, 1>>
    /\ cur = <<2, 2, 2, 0>>

\* countNeighbors(0, 0) has just been computed on a grid whose cell
\* (W-1, H-1) is alive
CountedAtOrigin ==
    /\ last_op.name = "count"
    /\ last_op.x = 0 /\ last_op.y = 0
    /\ cur[(grid_h - 1) * grid_w + (grid_w - 1) + 1] # 0

\* the count includes the cell (W-1, H-1): it exceeds the number of live
\* neighbours among the other cells
CornerCounted ==
    last_op.n > LiveNeighbours(WithCell(cur, grid_w - 1, grid_h - 1, 0),
                               0, 0, grid_w, grid_h, cfg.wrap)

\* C6 as claimed: on every W x H grid countNeighbors(0, 0) counts a live
\* cell at (W-1, H-1) with wraparound enabled and does not count it with
\* wraparound disabled.
C6_AsClaimed ==
    CountedAtOrigin => (CornerCounted <=> cfg.wrap)

\* C6 amended: with wraparound enabled the live cell at (W-1, H-1) is
\* counted on every grid; with wraparound disabled it is counted exactly on
\* the 1x2, 2x1 and 2x2 grids, where it is adjacent to (0, 0), and on no
\* other grid.
C6_CornerNeighbour ==
    CountedAtOrigin =>
        (CornerCounted <=>
            \/ cfg.wrap
            \/ (grid_w <= 2 /\ grid_h <= 2 /\ grid_w * grid_h > 1))

\* C6 witness: on the 3x3 torus whose only live cell is (2, 2),
\* countNeighbors(0, 0) is 1
C6_Witness ==
    /\ CountedAtOrigin
    /\ grid_w = 3 /\ grid_h = 3 /\ cfg.wrap
    /\ Live(cur, 3, 3) = {<<2, 2>>}
    /\ last_op.n = 1

\* max(1, floor(px / cellPx))
CellsAcross(px) ==
    IF px \div cfg.cell_px >= 1 THEN px \div cfg.cell_px ELSE 1

\* C7: in every state of the frame loop the two buffers have the same size,
\* grid_w * grid_h, with grid_w >= 1 and grid_h >= 1, and the dimensions are
\* max(1, floor(surface / cellPx)) of the surface size read at the last
\* resize, a surface of zero size or smaller than one cell included.
C7_BufferSizes ==
    /\ Len(cur) = Len(nxt)
    /\ Len(cur) = grid_w * grid_h
    /\ grid_w >= 1
    /\ grid_h >= 1
    /\ grid_w = CellsAcross(win_w_px)
    /\ grid_h = CellsAcross(win_h_px)

\* C7 witness: a surface of width zero (no window starts that small, so a
\* resize event was handled) gives a grid one cell wide; a step has run and
\* a cell painted since
C7_Witness ==
    /\ win_w_px = 0 /\ win_h_px = MaxSurfacePx
    /\ grid_w = 1 /\ grid_h = 2
    /\ last_step > 0
    /\ mouse_left /\ ~mouse_right
    /\ cur = <<1, 0>>
    /\ Len(nxt) = 2

\* main is inside its frame loop
InLoop == pc \in {"poll", "clock", "render"}

\* C8 as claimed: the running flag drops only while a quit event or a key
\* press is handled.
C8_AsClaimed ==
    [][(running /\ ~running') => (PollQuit \/ PollKeyDown)]_vars

\* C8 amended: the loop starts in Running; the running flag drops only when
\* a quit event or an Escape key press is drained or, in the embedded
\* preview, when the parent window is found gone at the end of a drain; the
\* loop is left only with the flag down; once it is down it stays down, no
\* later tick begins, the drain can end, the clock step and the cleanup can
\* be taken and the render of that tick leads to the cleanup; after the
\* cleanup nothing happens any more, the resources are released and the exit
\* code is 0.
C8_Termination ==
    /\ (running = TRUE /\ pc = "poll")
    /\ [][(running /\ ~running') =>
              (PollQuit \/ PollKeyDown \/ DrainEndParentGone)]_vars
    /\ [][(InLoop /\ ~InLoop') => ~running]_vars
    /\ [][~running => (~running' /\ ~(pc # "poll" /\ pc' = "poll"))]_vars
    /\ [](~running =>
            /\ pc = "poll" => ENABLED DrainEnd
            /\ pc = "clock" => ENABLED StepIfDue
            /\ pc = "cleanup" => ENABLED Cleanup)
    /\ [][(~running /\ pc = "render") => (Render /\ pc' = "cleanup")]_vars
    /\ [](released <=> pc = "done")
    /\ [](pc = "done" => (exit_code = 0 /\ ~running /\ ~ENABLED Next))
    /\ [](pc # "done" => exit_code = -1)

\* C8 witness: main has returned 0 from the embedded preview
C8_Witness ==
    /\ pc = "done"
    /\ exit_code = 0
    /\ released
    /\ ~running
    /\ isEmbeddedPreview

\* the interval has elapsed between the last step and the reading t
Due(t) ==
    \/ cfg.ms_per_step = 0
    \/ t - last_step >= cfg.ms_per_step * TicksPerMs

\* C9: in a tick the step runs iff the interval is 0 or the time since the
\* last-step timestamp is at least the interval; the timestamp becomes this
\* tick's reading exactly when the step runs and is unchanged otherwise; so
\* two consecutive steps, and startup and the first step, are at least the
\* interval apart, and at most one step runs per tick however late it is.
C9_StepClock ==
    /\ [][(pc = "clock" /\ pc' = "render") =>
            /\ now' >= now
            /\ IF Due(now')
               THEN /\ cur' = stepLife(cur, nxt, grid_w, grid_h, cfg.wrap, cfg.max_age)
                    /\ nxt' = cur
                    /\ last_step' = now'
               ELSE UNCHANGED <<cur, nxt, last_step>>]_vars
    /\ [][last_step' # last_step =>
            /\ pc = "clock"
            /\ last_step' - last_step >= cfg.ms_per_step * TicksPerMs]_vars

\* C9 witness: interval 1 ms; a step ran exactly one interval after startup,
\* and the tick one clock tick later has run none
C9_Witness ==
    /\ cfg.ms_per_step = 1
    /\ last_step = TicksPerMs
    /\ now = TicksPerMs + 1
    /\ pc = "render"

\* max(1, maxAge): the cap of the palette
PaletteCap == IF cfg.max_age < 1 THEN 1 ELSE cfg.max_age

Black == [r |-> 0, g |-> 0, b |-> 0, a |-> 255]

\* C11: colorForAge(0, cap) is black for every cap; for an age of at least
\* 1 the colour is that of (min(age, cap), cap) with cap = max(1, maxAge),
\* an opaque colour of 8-bit channels that is not the background; with cap 1
\* it is the colour of t = 0, hue 200 at full value (no division by zero);
\* and two calls with the same age and cap return the same colour.
C11_ColorForAge ==
    last_op.name = "color" =>
        /\ last_op.age = 0 => last_op.color = Black
        /\ last_op.age >= 1 =>
              /\ last_op.color
                    = colorForAge(Min(last_op.age, PaletteCap), PaletteCap)
              /\ last_op.color.r \in 0..255
              /\ last_op.color.g \in 0..255
              /\ last_op.color.b \in 0..255
              /\ last_op.color.a = 255
              /\ last_op.color # Black
              /\ (PaletteCap = 1 \/ last_op.age = 1) =>
                    last_op.color = [r |-> 0, g |-> 170, b |-> 255, a |-> 255]
              /\ last_op.age >= PaletteCap =>
                    last_op.color
                        = IF PaletteCap = 1
                          THEN [r |-> 0, g |-> 170, b |-> 255, a |-> 255]
                          ELSE [r |-> 89, g |-> 0, b |-> 0, a |-> 255]
        /\ \A p \in {last_op.before[k] : k \in 1..Len(last_op.before)} :
              p.age = last_op.age => p.color = last_op.color

\* C11 witness: with max_age 30 the largest age got the colour of age 30,
\* the dark red of t = 1, after age 0 got black
C11_Witness ==
    /\ last_op.name = "color"
    /\ cfg.max_age = 30
    /\ last_op.age = 255
    /\ last_op.color = [r |-> 89, g |-> 0, b |-> 0, a |-> 255]
    /\ last_op.before = <<[age |-> 0, color |-> Black]>>

\* the age of cell (x, y) in the generation after g: the rule applied to
\* the cell and its neighbours as they are in g
SnapshotAge(g, x, y) ==
    LET n == LiveNeighbours(g, x, y, grid_w, grid_h, cfg.wrap)
        a == g[y * grid_w + x + 1]
    IN  IF a # 0
        THEN IF n \in {2, 3} THEN (IF a + 1 <= Cap THEN a + 1 ELSE Cap) ELSE 0
        ELSE IF n = 3 THEN 1 ELSE 0

\* C12: after a step every cell of the current buffer is the rule applied
\* to the buffer that was current before the step, taken as one frozen
\* snapshot, and the next (scratch) buffer is exactly that previous
\* generation.
C12_SimultaneousUpdate ==
    Stepped =>
        /\ Len(cur) = grid_w * grid_h
        /\ \A x \in 0..(grid_w - 1), y \in 0..(grid_h - 1) :
              cur[y * grid_w + x + 1] = SnapshotAge(last_op.pre, x, y)
        /\ nxt = last_op.pre

\* C12 witness: the second step of the blinker on the bounded 3x3 grid:
\* the row becomes the column again, the scratch buffer holds the row
C12_Witness ==
    /\ Stepped
    /\ gen = 2
    /\ grid_w = 3 /\ grid_h = 3 /\ ~cfg.wrap /\ cfg.max_age = 3
    /\ last_op.pre2 = <<0, 1, 0, 0, 1, 0, 0, 1, 0>>
    /\ last_op.pre = <<0, 0, 0, 1, 2, 1, 0, 0, 0>>
    /\ cur = <<0, 1, 0, 0, 3, 0, 0, 1, 0>>
    /\ nxt = <<0, 0, 0, 1, 2, 1, 0, 0, 0>>

\* C13: randomize leaves ages 0 or 1; in every state of the frame loop
\* every age of the current buffer is in 0 .. cap, cap = clamp(maxAge, 1,
\* 255); while events are drained a step that keeps the dimensions (a paint
\* or an erase) changes cells to 0 or 1 only, and a step that changes them
\* (a resize) gives every cell the age it had at the same coordinates, or 0.
C13_AgesInRange ==
    /\ (\A i \in 1..Len(cur) : cur[i] \in {0, 1})
    /\ [](\A i \in 1..Len(cur) : cur[i] \in 0..Cap)
    /\ [][pc = "poll" =>
            IF <<grid_w', grid_h'>> = <<grid_w, grid_h>>
            THEN \A i \in 1..Len(cur) :
                    cur'[i] = cur[i] \/ cur'[i] \in {0, 1}
            ELSE \A x \in 0..(grid_w' - 1), y \in 0..(grid_h' - 1) :
                    \/ cur'[y * grid_w' + x + 1] = 0
                    \/ /\ x < grid_w
                       /\ y < grid_h
                       /\ cur'[y * grid_w' + x + 1] = cur[y * grid_w + x + 1]]_vars

\* C13 witness: a cell that has reached the cap next to a cell painted in
\* this tick, on a grid that a resize to a surface of height 0 has made
C13_Witness ==
    /\ pc = "poll"
    /\ win_w_px = MaxSurfacePx /\ win_h_px = 0
    /\ grid_w = 2 /\ grid_h = 1
    /\ cur = <<Cap, 1>>
    /\ Cap = 2
    /\ last_op.painted

\* countNeighbors has just been computed for the cell (last_op.x, last_op.y)
Counted == last_op.name = "count"

\* the positions the offsets around (x, y) reach with wraparound disabled
InsideOffsets(x, y) ==
    {d \in MooreOffsets : InGrid(x + d[1], y + d[2])}

\* C14: countNeighbors(x, y, wrap) is the number of the 8 Moore offsets
\* whose position holds an age of at least 1, each counted 1 whatever the
\* age, so it is in 0..8; with wraparound disabled only the offsets that
\* stay inside the grid count (at most 3 at a corner, at most 5 at an edge);
\* with wraparound enabled each coordinate is taken modulo the width or
\* height, as a non-negative index.
C14_CountNeighbors ==
    Counted =>
        LET x == last_op.x
            y == last_op.y
            corner == x \in {0, grid_w - 1} /\ y \in {0, grid_h - 1}
            edge == x \in {0, grid_w - 1} \/ y \in {0, grid_h - 1}
        IN  /\ last_op.n \in 0..8
            /\ last_op.n = LiveNeighbours(cur, x, y, grid_w, grid_h, cfg.wrap)
            /\ cfg.wrap =>
                  last_op.n = Cardinality({d \in MooreOffsets :
                      cur[((y + d[2] + grid_h) % grid_h) * grid_w
                          + ((x + d[1] + grid_w) % grid_w) + 1] >= 1})
            /\ ~cfg.wrap =>
                  /\ last_op.n = Cardinality({d \in InsideOffsets(x, y) :
                        cur[(y + d[2]) * grid_w + (x + d[1]) + 1] >= 1})
                  /\ corner => last_op.n <= 3
                  /\ edge => last_op.n <= 5

\* C14 witness: on the bounded 3x3 grid whose cells all have age 2 the
\* corner (0, 0) has 3 neighbours
C14_Witness ==
    /\ Counted
    /\ grid_w = 3 /\ grid_h = 3 /\ ~cfg.wrap
    /\ cur = <<2, 2, 2, 2, 2, 2, 2, 2, 2>>
    /\ last_op.x = 0 /\ last_op.y = 0
    /\ last_op.n = 3

\* C15 as claimed: every resize of a tick precedes every paint or erase of
\* that tick: no step changes the grid dimensions after a paint or erase has
\* changed a cell in the same tick.
C15_AsClaimed ==
    [][(pc = "poll" /\ <<grid_w', grid_h'>> # <<grid_w, grid_h>>)
            => ~last_op.painted]_vars

\* C15 amended: a tick is the drain, then the clock and the step if it is
\* due, then the render with the present; the window size, the grid
\* dimensions and the held buttons change only in the drain, where each
\* event is handled when it is dequeued (resizes and paints in the order of
\* their events); the current buffer changes only in the drain and, by the
\* step, at the clock; the frame changes only at the render, which leaves
\* the buffers alone, and shows the current buffer as the step has left it.
C15_TickOrder ==
    /\ [][pc' # pc =>
            <<pc, pc'>> \in {<<"poll", "clock">>, <<"clock", "render">>,
                             <<"render", "poll">>, <<"render", "cleanup">>,
                             <<"cleanup", "done">>}]_vars
    /\ [][(<<win_w_px, win_h_px, grid_w, grid_h, mouse_left, mouse_right>>'
                # <<win_w_px, win_h_px, grid_w, grid_h, mouse_left, mouse_right>>)
            => (pc = "poll" /\ pc' = "poll")]_vars
    /\ [][cur' # cur =>
            \/ pc = "poll" /\ pc' = "poll"
            \/ /\ pc = "clock"
               /\ Due(now')
               /\ cur' = stepLife(cur, nxt, grid_w, grid_h, cfg.wrap, cfg.max_age)]_vars
    /\ [][(pc = "clock" /\ Due(now')) => last_step' = now']_vars
    /\ [][frame' # frame => pc = "render"]_vars
    /\ [][pc = "render" =>
            /\ UNCHANGED <<cur, nxt, grid_w, grid_h>>
            /\ frame' = RenderFrame(cur, grid_w, grid_h, cfg.cell_px, cfg.max_age)]_vars

\* C15 witness: a tick whose drain has painted a cell and left a surface of
\* height 0, and whose step has run, is about to render a frame that
\* differs from the one shown
C15_Witness ==
    /\ pc = "render"
    /\ last_op.painted
    /\ win_h_px = 0
    /\ cfg.ms_per_step = 1
    /\ last_step = now
    /\ now = MaxTime
    /\ frame # <<>>
    /\ frame # RenderFrame(cur, grid_w, grid_h, cfg.cell_px, cfg.max_age)

\* every cell of c is the rule applied to the generation g
WholeGeneration(c, g) ==
    /\ Len(c) = grid_w * grid_h
    /\ \A x \in 0..(grid_w - 1), y \in 0..(grid_h - 1) :
          c[y * grid_w + x + 1] = SnapshotAge(g, x, y)

\* C16: the tick in which a terminate signal is drained goes on: further
\* events can still be drained and handled, the step runs if it is due, the
\* frame is rendered, and only then is the loop left; the step changes the
\* current buffer as a whole (every cell from the previous generation, which
\* the scratch buffer then holds) or not at all, and neither the render nor
\* the exit touches the buffers: what is rendered, painted, resized or
\* left at exit is never a mix of two generations.
C16_NoPartialStep ==
    /\ [][pc = "clock" =>
            \/ UNCHANGED <<cur, nxt>>
            \/ WholeGeneration(cur', cur) /\ nxt' = cur]_vars
    /\ [][(pc \in {"render", "cleanup", "done"}) => UNCHANGED <<cur, nxt>>]_vars
    /\ [](~running /\ pc = "poll" =>
            /\ ENABLED PollWindowEvent
            /\ ENABLED PollMouseButtonDown
            /\ ENABLED PollMouseMotion
            /\ ENABLED DrainEnd)
    /\ [][(~running /\ pc = "clock") =>
            /\ pc' = "render"
            /\ Due(now') => (WholeGeneration(cur', cur) /\ last_step' = now')]_vars
    /\ [][(~running /\ pc = "render") =>
            /\ pc' = "cleanup"
            /\ frame' = RenderFrame(cur, grid_w, grid_h, cfg.cell_px, cfg.max_age)]_vars
    /\ [][(pc' = "cleanup" /\ pc # "cleanup") => pc = "render"]_vars

\* C16 witness: the loop is being left after a tick in which the terminate
\* signal was drained, a cell was painted and the step ran; the frame shown
\* is that of the buffer left behind
C16_Witness ==
    /\ pc = "cleanup"
    /\ ~running
    /\ ~isEmbeddedPreview
    /\ cfg.ms_per_step = 1
    /\ last_step = now
    /\ now = TicksPerMs
    /\ mouse_left
    /\ cur = <<2, 0>>
    /\ nxt = <<1, 0>>
    /\ frame = RenderFrame(cur, grid_w, grid_h, cfg.cell_px, cfg.max_age)

\* the rectangle of the live cell (x, y) of the current buffer
CellRect(x, y) ==
    [op |-> "fill",
     x |-> x * cfg.cell_px,
     y |-> y * cfg.cell_px,
     w |-> cfg.cell_px,
     h |-> cfg.cell_px,
     color |-> colorForAge(cur[y * grid_w + x + 1], cfg.max_age)]

\* C17: a frame is one clear to black, then filled rectangles only, then
\* one present; the frame the render sends has exactly one rectangle for
\* each cell of the current buffer with age >= 1, at (x * cellPx,
\* y * cellPx), cellPx wide and high, in the colour of its age, and none for
\* a cell of age 0: as many rectangles as live cells.
C17_Frame ==
    /\ [](frame # <<>> =>
            /\ Len(frame) >= 2
            /\ frame[1] = [op |-> "clear", color |-> Black]
            /\ frame[Len(frame)] = [op |-> "present"]
            /\ \A k \in 2..(Len(frame) - 1) : frame[k].op = "fill")
    /\ [][pc = "render" =>
            /\ Len(frame') = Cardinality(Live(cur, grid_w, grid_h)) + 2
            /\ {frame'[k] : k \in 2..(Len(frame') - 1)}
                  = {CellRect(c[1], c[2]) : c \in Live(cur, grid_w, grid_h)}]_vars

\* C17 witness: the frame of a grid two cells wide whose left cell is dead
\* and whose right cell has the age of the cap: one dark red rectangle at
\* (cellPx, 0)
C17_Witness ==
    /\ pc = "poll"
    /\ grid_w = 2 /\ grid_h = 1
    /\ cur = <<0, 2>>
    /\ cfg.cell_px = 2 /\ cfg.max_age = 2
    /\ frame = <<[op |-> "clear", color |-> Black],
                 [op |-> "fill", x |-> 2, y |-> 0, w |-> 2, h |-> 2,
                  color |-> [r |-> 89, g |-> 0, b |-> 0, a |-> 255]],
                 [op |-> "present"]>>

\* C18: a resize whose computed dimensions, max(1, floor(surface / cellPx)),
\* equal the dimensions of the grid leaves grid_w, grid_h and every cell of
\* the current and of the next buffer unchanged; a resize to different
\* dimensions leaves the next buffer all zeros, of the new size.
C18_ResizeNoOp ==
    Resized =>
        /\ grid_w = CellsAcross(win_w_px)
        /\ grid_h = CellsAcross(win_h_px)
        /\ IF <<grid_w, grid_h>> = <<last_op.grid_w, last_op.grid_h>>
           THEN cur = last_op.cur /\ nxt = last_op.nxt
           ELSE nxt = [i \in 1..(grid_w * grid_h) |-> 0]

\* C18 witness: a 2x2 grid whose window goes from 4x4 to 5x5 pixels, still
\* two cells each way: both buffers are as they were, the next buffer not
\* zero
C18_Witness ==
    /\ Resized
    /\ gen = 1
    /\ win_w_px = 5 /\ win_h_px = 5
    /\ grid_w = 2 /\ grid_h = 2
    /\ last_op.grid_w = 2 /\ last_op.grid_h = 2
    /\ last_op.cur = <<1, 2, 0, 1>>
    /\ last_op.nxt = <<1, 1, 1, 1>>
    /\ cur = <<1, 2, 0, 1>>
    /\ nxt = <<1, 1, 1, 1>>

\* the cells other than (x, y) that the offsets around (x, y) reach on the
\* torus
TorusNeighbours(x, y) ==
    {<<(x + d[1] + grid_w) % grid_w, (y + d[2] + grid_h) % grid_h>> :
        d \in MooreOffsets} \ {<<x, y>>}

\* C19: with wraparound enabled countNeighbors(x, y) is the number of live
\* cells among the distinct cells around (x, y), the cell itself left out
\* and each cell counted once, on every grid from 1x1; so the only live
\* cell of a grid has count 0.
C19_NoSelfNoDuplicates ==
    (Counted /\ cfg.wrap) =>
        /\ last_op.n = Cardinality({c \in TorusNeighbours(last_op.x, last_op.y) :
                                       cur[c[2] * grid_w + c[1] + 1] # 0})
        /\ Live(cur, grid_w, grid_h) = {<<last_op.x, last_op.y>>} => last_op.n = 0

\* two resizes have run, the second back to the dimensions before the first
RoundTrip ==
    /\ Resized
    /\ last_op.before # <<>>
    /\ <<grid_w, grid_h>> = <<last_op.before[1].grid_w, last_op.before[1].grid_h>>

\* C20: after a resize from W x H to W' x H' and a resize back to W x H,
\* nothing else in between, the cell (x, y) has the age it had before the
\* two if x < W' and y < H', and is dead otherwise: a grid grown (W' >= W,
\* H' >= H) and cut back is as it was, a grid cut and grown back keeps only
\* the cells of the smaller grid.
C20_ResizeRoundTrip ==
    RoundTrip =>
        LET first == last_op.before[1]
        IN  /\ Len(cur) = grid_w * grid_h
            /\ \A x \in 0..(grid_w - 1), y \in 0..(grid_h - 1) :
                  cur[y * grid_w + x + 1] =
                      IF x < last_op.grid_w /\ y < last_op.grid_h
                      THEN first.cur[y * grid_w + x + 1]
                      ELSE 0
            /\ (last_op.grid_w >= grid_w /\ last_op.grid_h >= grid_h) =>
                  cur = first.cur

\* C20 witness: a 3x2 grid cut to 2x1 and grown back to 3x2 keeps the two
\* cells of the top left and has lost the other live cells
C20_Witness ==
    /\ RoundTrip
    /\ grid_w = 3 /\ grid_h = 2
    /\ last_op.grid_w = 2 /\ last_op.grid_h = 1
    /\ last_op.before[1].cur = <<1, 2, 1, 2, 1, 2>>
    /\ last_op.cur = <<1, 2>>
    /\ cur = <<1, 2, 0, 0, 0, 0>>

====
